---- MODULE Spec2Model ----
(***************************************************************************)
(* Risk Profile Assessment Service (src/assessment.py).                    *)
(*                                                                         *)
(* The service scores a 13-question Grable-Lytton questionnaire            *)
(* (calculate_gl_score), rescales the raw score onto the 1.0 .. 10.0 range *)
(* in 0.5 steps (scale_to_bibit_score), looks the tier up in the           *)
(* allocation table (get_allocations) and answers the POST /assess-risk    *)
(* request (assess_risk).                                                  *)
(*                                                                         *)
(* Numbers.  Tier values (1.0, 1.5, ..., 10.0) are kept in hundredths      *)
(* (100, 150, ..., 1000).  The rescaler's float arithmetic is modelled by  *)
(* the exact rational it approximates: the quotient that round() receives  *)
(* is within 1e-13 of (94 + 18*s)/47, which for an integer s is never      *)
(* closer than 1/94 to a half-integer, so the float and the exact          *)
(* quotient round alike; all tier values are exact binary floats.          *)
(***************************************************************************)
EXTENDS FiniteSets, Integers, Sequences, TLC

(***************************************************************************)
(* Bounds of the model.                                                    *)
(***************************************************************************)
\* Invocations in flight at once.  assess_risk has no await, so an event loop
\* runs each invocation to its end; the model interleaves them step by step,
\* which covers that schedule and every finer one (threads).
NumInvocations == 2

\* Question ids offered to calculate_gl_score range over 0 .. MaxQuestionId.
MaxQuestionId == 14

\* Every answer list of at most this length over all ids and letters is tried.
MaxShortLen == 2

\* scale_to_bibit_score is tried on -ScoreMargin .. X_max + ScoreMargin.
ScoreMargin == 3

(***************************************************************************)
(* Static configuration.                                                   *)
(***************************************************************************)
\* GL_SCORING_KEY as written in the source: question -> choice -> points.
ScoringKeyTable ==
    << [A |-> 4, B |-> 3, C |-> 2, D |-> 1],
       [A |-> 1, B |-> 2, C |-> 3, D |-> 4],
       [A |-> 1, B |-> 2, C |-> 3, D |-> 4],
       [A |-> 1, B |-> 2, C |-> 3],
       [A |-> 1, B |-> 2, C |-> 3],
       [A |-> 1, B |-> 2, C |-> 3, D |-> 4],
       [A |-> 1, B |-> 2, C |-> 3, D |-> 4],
       [A |-> 1, B |-> 2, C |-> 3, D |-> 4],
       [A |-> 1, B |-> 3],
       [A |-> 1, B |-> 3],
       [A |-> 1, B |-> 2, C |-> 3, D |-> 4],
       [A |-> 1, B |-> 2, C |-> 3, D |-> 4],
       [A |-> 1, B |-> 2, C |-> 3, D |-> 4] >>

\* One row of BIBIT_ALLOCATIONS.
Row(profile, mm, ob, st) ==
    [profile |-> profile, money_market |-> mm, obligation |-> ob, stocks |-> st]

\* Faulty variant: the table with a typo in the 3.5 row (stocks 10 for 11).
AllocationTableTypo ==
    (100 :> Row("Konservatif", 70, 20, 10)) @@
    (150 :> Row("Konservatif", 70, 20, 10)) @@
    (200 :> Row("Konservatif", 58, 32, 10)) @@
    (250 :> Row("Konservatif", 47, 43, 10)) @@
    (300 :> Row("Konservatif", 36, 54, 10)) @@
    (350 :> Row("Konservatif", 27, 62, 10)) @@
    (400 :> Row("Konservatif", 18, 69, 13)) @@
    (450 :> Row("Moderat", 12, 70, 18)) @@
    (500 :> Row("Moderat", 10, 65, 25)) @@
    (550 :> Row("Moderat", 10, 59, 31)) @@
    (600 :> Row("Moderat", 10, 53, 37)) @@
    (650 :> Row("Moderat", 10, 48, 42)) @@
    (700 :> Row("Moderat", 10, 43, 47)) @@
    (750 :> Row("Agresif", 10, 38, 52)) @@
    (800 :> Row("Agresif", 10, 34, 56)) @@
    (850 :> Row("Agresif", 10, 29, 61)) @@
    (900 :> Row("Agresif", 10, 24, 66)) @@
    (950 :> Row("Agresif", 10, 20, 70)) @@
    (1000 :> Row("Agresif", 10, 20, 70))

\* BIBIT_ALLOCATIONS as written in the source, keyed by tier in hundredths.
AllocationTable ==
    (100 :> Row("Konservatif", 70, 20, 10)) @@
    (150 :> Row("Konservatif", 70, 20, 10)) @@
    (200 :> Row("Konservatif", 58, 32, 10)) @@
    (250 :> Row("Konservatif", 47, 43, 10)) @@
    (300 :> Row("Konservatif", 36, 54, 10)) @@
    (350 :> Row("Konservatif", 27, 62, 11)) @@
    (400 :> Row("Konservatif", 18, 69, 13)) @@
    (450 :> Row("Moderat", 12, 70, 18)) @@
    (500 :> Row("Moderat", 10, 65, 25)) @@
    (550 :> Row("Moderat", 10, 59, 31)) @@
    (600 :> Row("Moderat", 10, 53, 37)) @@
    (650 :> Row("Moderat", 10, 48, 42)) @@
    (700 :> Row("Moderat", 10, 43, 47)) @@
    (750 :> Row("Agresif", 10, 38, 52)) @@
    (800 :> Row("Agresif", 10, 34, 56)) @@
    (850 :> Row("Agresif", 10, 29, 61)) @@
    (900 :> Row("Agresif", 10, 24, 66)) @@
    (950 :> Row("Agresif", 10, 20, 70)) @@
    (1000 :> Row("Agresif", 10, 20, 70))

\* Answer.question: Field(..., ge=1, le=13).
QuestionMin == 1

QuestionMax == 13

\* Answer.answer: Literal["A", "B", "C", "D"].
AnswerLiteral == {"A", "B", "C", "D"}

\* RiskAssessmentPayload.answers: min_length=13, max_length=13.
PayloadLength == 13

\* len(answered_questions) != 13.
NumQuestions == 13

\* X_min, X_max = 0.0, 47.0
X_min == 0

X_max == 47

\* Y_min, Y_max = 1.0, 10.0 (hundredths).
Y_min == 100

Y_max == 1000

\* step = 0.5 (hundredths).
step == 50

(***************************************************************************)
(* State.  Every variable but the two tables is a function of the          *)
(* invocation: those are the locals of one call.                           *)
(***************************************************************************)
VARIABLES
    GL_SCORING_KEY,       \* module-level dict
    BIBIT_ALLOCATIONS,    \* module-level dict
    entry,                \* the function the invocation entered by
    pc,                   \* position of the invocation
    answers,              \* the list of Answer objects passed in
    i,                    \* entries the for loop has consumed
    score,                \* calculate_gl_score: score
    answered_questions,   \* calculate_gl_score: answered_questions
    gl_score,             \* value returned by calculate_gl_score
    bibit_score,          \* value returned by scale_to_bibit_score
    allocation_data,      \* value returned by get_allocations
    outcome               \* HTTP outcome: response body or error

vars ==
    << GL_SCORING_KEY, BIBIT_ALLOCATIONS, entry, pc, answers, i, score,
       answered_questions, gl_score, bibit_score, allocation_data, outcome >>

Procs == 1..NumInvocations

(***************************************************************************)
(* Values.                                                                 *)
(***************************************************************************)
\* An Answer object.
Answer(q, a) == [question |-> q, answer |-> a]

NoDetail == [error |-> "", question |-> 0, answer |-> "", choices |-> {}]

NoRow == Row("", 0, 0, 0)

NoBody ==
    [gl_score |-> -1, risk_profile_score |-> 0, profile |-> "",
     allocations |-> [money_market |-> 0, obligation |-> 0, stocks |-> 0]]

\* No outcome yet (or a plain return to a direct caller).
NoOutcome == [status |-> 0, detail |-> NoDetail, body |-> NoBody]

\* raise HTTPException(status_code=..., detail=...).
HTTPException(status_code, error, q, a, choices) ==
    [status |-> status_code,
     detail |-> [error |-> error, question |-> q, answer |-> a, choices |-> choices],
     body |-> NoBody]

\* AllocationResponse(gl_score=..., risk_profile_score=..., profile=..., allocations=...).
AllocationResponse(gl, bibit, data) ==
    [status |-> 200, detail |-> NoDetail,
     body |-> [gl_score |-> gl, risk_profile_score |-> bibit,
               profile |-> data.profile,
               allocations |-> [money_market |-> data.money_market,
                                obligation |-> data.obligation,
                                stocks |-> data.stocks]]]

\* Request validation by the pydantic models, done before assess_risk runs.
PayloadValid(l) ==
    /\ Len(l) = PayloadLength
    /\ \A k \in 1..Len(l) :
          /\ l[k].question >= QuestionMin
          /\ l[k].question <= QuestionMax
          /\ l[k].answer \in AnswerLiteral

(***************************************************************************)
(* calculate_gl_score.                                                     *)
(***************************************************************************)
\* Faulty variant: the loop body without the duplicate test.
EntryCheckNoDuplicate(key, answered, item) ==
    IF item.question \notin DOMAIN key THEN "UnknownQuestion"
    ELSE IF item.answer \notin DOMAIN key[item.question] THEN "InvalidChoice"
    ELSE "ok"

\* Faulty variant: the id and the choice are tested before the duplicate.
EntryCheckChoiceFirst(key, answered, item) ==
    IF item.question \notin DOMAIN key THEN "UnknownQuestion"
    ELSE IF item.answer \notin DOMAIN key[item.question] THEN "InvalidChoice"
    ELSE IF item.question \in answered THEN "DuplicateQuestion"
    ELSE "ok"

\* The three checks of the loop body, in the order the code makes them.
EntryCheck(key, answered, item) ==
    IF item.question \in answered THEN "DuplicateQuestion"
    ELSE IF item.question \notin DOMAIN key THEN "UnknownQuestion"
    ELSE IF item.answer \notin DOMAIN key[item.question] THEN "InvalidChoice"
    ELSE "ok"

\* Faulty variant: answered_questions is one module-level set shared by all invocations.
AddAnsweredShared(aq, self, q) == [p \in DOMAIN aq |-> aq[p] \cup {q}]

\* answered_questions.add(q_num), on the set of the calling invocation.
AddAnswered(aq, self, q) == [aq EXCEPT ![self] = @ \cup {q}]

\* The exception the loop body raises for a failed check.
EntryError(key, check, item) ==
    HTTPException(400, check, item.question, item.answer,
                  IF check = "InvalidChoice" THEN DOMAIN key[item.question] ELSE {})

\* Faulty variant: only a surplus of answers is rejected (len(...) > 13).
IsCompleteAtMost(answered) == Cardinality(answered) <= NumQuestions

\* The completeness test after the loop.
IsComplete(answered) == Cardinality(answered) = NumQuestions

(***************************************************************************)
(* scale_to_bibit_score.                                                   *)
(***************************************************************************)
\* Faulty variant: the span of the raw scale is taken as 48 (X_max - X_min + 1).
UnroundedStepsWideSpan(gl) ==
    [num |-> Y_min * (X_max - X_min + 1) + gl * (Y_max - Y_min),
     den |-> step * (X_max - X_min + 1)]

\* unrounded_b_score / step as an exact fraction num/den.
UnroundedSteps(gl) ==
    [num |-> Y_min * (X_max - X_min) + gl * (Y_max - Y_min),
     den |-> step * (X_max - X_min)]

\* Faulty variant: int() instead of round(): the quotient is truncated.
RoundDown(num, den) == num \div den

\* Python's round(): to the nearest integer, a tie to the even one.
RoundHalfEven(num, den) ==
    LET q == num \div den
        r == num % den
    IN  IF 2 * r < den THEN q
        ELSE IF 2 * r > den THEN q + 1
        ELSE IF q % 2 = 0 THEN q ELSE q + 1

Min(a, b) == IF a <= b THEN a ELSE b

Max(a, b) == IF a >= b THEN a ELSE b

\* Faulty variant: the interpolated value is returned without the quantization to 0.5.
scale_without_rounding(gl) ==
    IF gl <= X_min THEN Y_min
    ELSE IF gl >= X_max THEN Y_max
    ELSE Max(Y_min, Min(Y_max, (UnroundedSteps(gl).num * step) \div UnroundedSteps(gl).den))

scale_to_bibit_score(gl) ==
    IF gl <= X_min THEN Y_min
    ELSE IF gl >= X_max THEN Y_max
    ELSE LET u == UnroundedSteps(gl)
             rounded_b_score == RoundHalfEven(u.num, u.den) * step
         IN  Max(Y_min, Min(Y_max, rounded_b_score))

(***************************************************************************)
(* Where an invocation goes when a function returns: on to the next stage  *)
(* of assess_risk, or back to a direct caller.                             *)
(***************************************************************************)
AfterReturn(e, fn, next) == IF e = fn THEN "done" ELSE next

(***************************************************************************)
(* Inputs.                                                                 *)
(***************************************************************************)
Questions == DOMAIN ScoringKeyTable

\* Every (question, answer) pair offered as a list entry.  Ids outside 1..13
\* reach calculate_gl_score only from a direct caller (Answer objects built
\* without validation); a request body holding one is rejected by Validate.
AllEntries == {Answer(q, a) : q \in 0..MaxQuestionId, a \in AnswerLiteral}

\* The lowest- and the highest-scoring choice defined for a question.
LoChoice(q) ==
    CHOOSE a \in DOMAIN ScoringKeyTable[q] :
        \A b \in DOMAIN ScoringKeyTable[q] : ScoringKeyTable[q][a] <= ScoringKeyTable[q][b]

HiChoice(q) ==
    CHOOSE a \in DOMAIN ScoringKeyTable[q] :
        \A b \in DOMAIN ScoringKeyTable[q] : ScoringKeyTable[q][a] >= ScoringKeyTable[q][b]

\* Questions 1..13 in order, those of S at their highest choice, the rest at
\* their lowest.
LoHiList(S) == [q \in Questions |-> Answer(q, IF q \in S THEN HiChoice(q) ELSE LoChoice(q))]

BaseLo == LoHiList({})

BaseHi == LoHiList(Questions)

LoHiLists == {LoHiList(S) : S \in SUBSET Questions}

\* A base list with one entry replaced by any entry: a duplicate of an earlier
\* or later question, an unknown id, another choice.
SingleEdits ==
    {[b EXCEPT ![k] = e] : b \in {BaseLo, BaseHi}, k \in Questions, e \in AllEntries}

\* A base list with one more entry.
Appended == {Append(b, e) : b \in {BaseLo, BaseHi}, e \in AllEntries}

\* The leading entries of a base list.
BasePrefixes == {SubSeq(b, 1, n) : b \in {BaseLo, BaseHi}, n \in 0..Len(BaseLo)}

\* Every list of at most MaxShortLen entries.
ShortLists == UNION {[1..n -> AllEntries] : n \in 0..MaxShortLen}

\* Request bodies posted to /assess-risk.
Payloads == LoHiLists \cup SingleEdits \cup Appended \cup BasePrefixes

\* Lists handed to calculate_gl_score by a direct caller.
AnswerLists == SingleEdits \cup Appended \cup BasePrefixes \cup ShortLists

\* Raw scores handed to scale_to_bibit_score by a direct caller.
RawScores == (X_min - ScoreMargin)..(X_max + ScoreMargin)

\* Request bodies of the concurrent invocations.
ConcPayloads ==
    {BaseLo, BaseHi, [BaseLo EXCEPT ![2] = Answer(1, "B")],
     [BaseHi EXCEPT ![1] = Answer(9, "D")], SubSeq(BaseLo, 1, 2)}

Call(e, l, g) == [entry |-> e, answers |-> l, gl_score |-> g]

NoCall == Call("none", << >>, -1)

AssessCalls == {Call("assess_risk", l, -1) : l \in Payloads}

ScoreCalls == {Call("calculate_gl_score", l, -1) : l \in AnswerLists}

ScaleCalls == {Call("scale_to_bibit_score", << >>, g) : g \in RawScores}

ConcCalls == {Call("assess_risk", l, -1) : l \in ConcPayloads}

StartPc(e) ==
    CASE e = "assess_risk" -> "validate"
      [] e = "calculate_gl_score" -> "scan"
      [] e = "scale_to_bibit_score" -> "scale"
      [] OTHER -> "done"

(***************************************************************************)
(* Initial states: the tables as loaded, each invocation at its entry.     *)
(***************************************************************************)
InitWith(calls) ==
    /\ GL_SCORING_KEY = ScoringKeyTable
    /\ BIBIT_ALLOCATIONS = AllocationTable
    /\ entry = [p \in Procs |-> calls[p].entry]
    /\ pc = [p \in Procs |-> StartPc(calls[p].entry)]
    /\ answers = [p \in Procs |-> calls[p].answers]
    /\ i = [p \in Procs |-> 0]
    /\ score = [p \in Procs |-> 0]
    /\ answered_questions = [p \in Procs |-> {}]
    /\ gl_score = [p \in Procs |-> calls[p].gl_score]
    /\ bibit_score = [p \in Procs |-> 0]
    /\ allocation_data = [p \in Procs |-> NoRow]
    /\ outcome = [p \in Procs |-> NoOutcome]

\* One invocation, of any of the three functions.
Init ==
    \E c \in AssessCalls \cup ScoreCalls \cup ScaleCalls :
        InitWith([p \in Procs |-> IF p = 1 THEN c ELSE NoCall])

\* NumInvocations concurrent requests.
InitConc == \E calls \in [Procs -> ConcCalls] : InitWith(calls)

(***************************************************************************)
(* Actions.                                                                *)
(***************************************************************************)
\* FastAPI validates the request body against RiskAssessmentPayload.
Validate(self) ==
    /\ pc[self] = "validate"
    /\ IF PayloadValid(answers[self])
       THEN /\ pc' = [pc EXCEPT ![self] = "scan"]
            /\ UNCHANGED outcome
       ELSE /\ pc' = [pc EXCEPT ![self] = "done"]
            /\ outcome' = [outcome EXCEPT ![self] =
                   HTTPException(422, "RequestValidationError", 0, "", {})]
    /\ UNCHANGED << GL_SCORING_KEY, BIBIT_ALLOCATIONS, entry, answers, i, score,
                    answered_questions, gl_score, bibit_score, allocation_data >>

\* One iteration of the for loop of calculate_gl_score.
Scan(self) ==
    /\ pc[self] = "scan"
    /\ i[self] < Len(answers[self])
    /\ LET item == answers[self][i[self] + 1]
           check == EntryCheck(GL_SCORING_KEY, answered_questions[self], item)
       IN  /\ i' = [i EXCEPT ![self] = @ + 1]
           /\ answered_questions' =
                 IF check = "DuplicateQuestion" THEN answered_questions
                 ELSE AddAnswered(answered_questions, self, item.question)
           /\ IF check = "ok"
              THEN /\ score' = [score EXCEPT ![self] =
                          @ + GL_SCORING_KEY[item.question][item.answer]]
                   /\ UNCHANGED << pc, outcome >>
              ELSE /\ pc' = [pc EXCEPT ![self] = "done"]
                   /\ outcome' = [outcome EXCEPT ![self] =
                          EntryError(GL_SCORING_KEY, check, item)]
                   /\ UNCHANGED score
    /\ UNCHANGED << GL_SCORING_KEY, BIBIT_ALLOCATIONS, entry, answers, gl_score,
                    bibit_score, allocation_data >>

\* The end of calculate_gl_score: the completeness test and the return.
Complete(self) ==
    /\ pc[self] = "scan"
    /\ i[self] = Len(answers[self])
    /\ IF IsComplete(answered_questions[self])
       THEN /\ gl_score' = [gl_score EXCEPT ![self] = score[self]]
            /\ pc' = [pc EXCEPT ![self] =
                   AfterReturn(entry[self], "calculate_gl_score", "scale")]
            /\ UNCHANGED outcome
       ELSE /\ pc' = [pc EXCEPT ![self] = "done"]
            /\ outcome' = [outcome EXCEPT ![self] =
                   HTTPException(400, "IncompleteAnswerSet", 0, "", {})]
            /\ UNCHANGED gl_score
    /\ UNCHANGED << GL_SCORING_KEY, BIBIT_ALLOCATIONS, entry, answers, i, score,
                    answered_questions, bibit_score, allocation_data >>

\* bibit_score = scale_to_bibit_score(gl_score).
Scale(self) ==
    /\ pc[self] = "scale"
    /\ bibit_score' = [bibit_score EXCEPT ![self] = scale_to_bibit_score(gl_score[self])]
    /\ pc' = [pc EXCEPT ![self] =
           AfterReturn(entry[self], "scale_to_bibit_score", "lookup")]
    /\ UNCHANGED << GL_SCORING_KEY, BIBIT_ALLOCATIONS, entry, answers, i, score,
                    answered_questions, gl_score, allocation_data, outcome >>

\* allocation_data = get_allocations(bibit_score).
Lookup(self) ==
    /\ pc[self] = "lookup"
    /\ IF bibit_score[self] \notin DOMAIN BIBIT_ALLOCATIONS
       THEN /\ pc' = [pc EXCEPT ![self] = "done"]
            /\ outcome' = [outcome EXCEPT ![self] =
                   HTTPException(500, "AllocationNotConfigured", 0, "", {})]
            /\ UNCHANGED allocation_data
       ELSE /\ allocation_data' = [allocation_data EXCEPT ![self] =
                   BIBIT_ALLOCATIONS[bibit_score[self]]]
            /\ pc' = [pc EXCEPT ![self] = "respond"]
            /\ UNCHANGED outcome
    /\ UNCHANGED << GL_SCORING_KEY, BIBIT_ALLOCATIONS, entry, answers, i, score,
                    answered_questions, gl_score, bibit_score >>

\* return AllocationResponse(...).
Respond(self) ==
    /\ pc[self] = "respond"
    /\ outcome' = [outcome EXCEPT ![self] =
           AllocationResponse(gl_score[self], bibit_score[self], allocation_data[self])]
    /\ pc' = [pc EXCEPT ![self] = "done"]
    /\ UNCHANGED << GL_SCORING_KEY, BIBIT_ALLOCATIONS, entry, answers, i, score,
                    answered_questions, gl_score, bibit_score, allocation_data >>

Next ==
    \E self \in Procs :
        \/ Validate(self)
        \/ Scan(self)
        \/ Complete(self)
        \/ Scale(self)
        \/ Lookup(self)
        \/ Respond(self)

(***************************************************************************)
(* Vocabulary of the properties.                                           *)
(***************************************************************************)
\* The invocation runs calculate_gl_score (directly or inside assess_risk).
Scores(p) == entry[p] \in {"assess_risk", "calculate_gl_score"}

\* calculate_gl_score has returned a score to its caller.
Returned(p) == Scores(p) /\ gl_score[p] # -1

\* calculate_gl_score has raised.
Failed(p) == Scores(p) /\ outcome[p].status = 400

\* scale_to_bibit_score has returned.
Scaled(p) ==
    \/ pc[p] \in {"lookup", "respond"}
    \/ pc[p] = "done" /\ entry[p] = "scale_to_bibit_score"
    \/ pc[p] = "done" /\ entry[p] = "assess_risk" /\ outcome[p].status \in {200, 500}

\* The question ids of a list.
Ids(l) == {l[k].question : k \in 1..Len(l)}

\* Entry k repeats the id of an earlier entry.
Repeats(l, k) == \E j \in 1..(k - 1) : l[j].question = l[k].question

UnknownId(l, k) == l[k].question \notin 1..13

BadChoice(l, k) ==
    /\ ~UnknownId(l, k)
    /\ l[k].answer \notin DOMAIN ScoringKeyTable[l[k].question]

Violates(l, k) == Repeats(l, k) \/ UnknownId(l, k) \/ BadChoice(l, k)

HasViolation(l) == \E k \in 1..Len(l) : Violates(l, k)

\* The earliest violating entry.
FirstViolation(l) ==
    CHOOSE k \in 1..Len(l) : Violates(l, k) /\ \A j \in 1..(k - 1) : ~Violates(l, j)

\* The error the ordering rule assigns to entry k.
RuleError(l, k) ==
    IF Repeats(l, k) THEN "DuplicateQuestion"
    ELSE IF UnknownId(l, k) THEN "UnknownQuestion"
    ELSE "InvalidChoice"

HasRepeat(l) == \E k \in 1..Len(l) : Repeats(l, k)

\* The earliest entry that repeats an id.
FirstRepeat(l) ==
    CHOOSE k \in 1..Len(l) : Repeats(l, k) /\ \A j \in 1..(k - 1) : ~Repeats(l, j)

\* Each question 1..13 exactly once, each with a choice defined for it.
ValidAnswerSet(l) == Len(l) = 13 /\ Ids(l) = 1..13 /\ ~HasViolation(l)

\* C1: for every answer list that holds each question 1..13 exactly once with a
\* choice defined for it, calculate_gl_score raises nothing and returns a raw
\* score in 13..47.
C1_ScoreInRange ==
    \A p \in Procs :
        (Scores(p) /\ ValidAnswerSet(answers[p])) =>
            /\ ~Failed(p)
            /\ Returned(p) => gl_score[p] \in 13..47

\* Every entry satisfies the field constraints of the Answer model.
WellFormed(l) ==
    \A k \in 1..Len(l) : l[k].question \in 1..13 /\ l[k].answer \in {"A", "B", "C", "D"}

\* C2 (as claimed): a list (of well-formed Answer objects) in which some id
\* occurs twice always fails with DuplicateQuestion for a repeated id.
C2_DuplicateAlwaysReported ==
    \A p \in Procs :
        (HasRepeat(answers[p]) /\ WellFormed(answers[p]) /\ (Returned(p) \/ Failed(p))) =>
            /\ Failed(p)
            /\ outcome[p].detail.error = "DuplicateQuestion"
            /\ \E k \in 1..Len(answers[p]) :
                  Repeats(answers[p], k) /\ answers[p][k].question = outcome[p].detail.question

\* C2 (amended): a list in which some id occurs twice never yields a score;
\* calculate_gl_score fails with DuplicateQuestion for the first id to repeat
\* when every entry before that repeat has a known id and a defined choice, and
\* otherwise with the UnknownQuestion or InvalidChoice error of an entry before
\* the repeat.
C2_DuplicateNeverScores ==
    \A p \in Procs :
        LET l == answers[p] IN
        (HasRepeat(l) /\ Scores(p)) =>
            /\ ~Returned(p)
            /\ Failed(p) =>
                  LET k == FirstRepeat(l)
                      clean == \A j \in 1..(k - 1) : ~UnknownId(l, j) /\ ~BadChoice(l, j)
                  IN  IF clean
                      THEN /\ outcome[p].detail.error = "DuplicateQuestion"
                           /\ outcome[p].detail.question = l[k].question
                           /\ i[p] = k
                      ELSE /\ outcome[p].detail.error \in {"UnknownQuestion", "InvalidChoice"}
                           /\ i[p] < k

\* A duplicate reported at the 13th entry or later.
C2_Witness ==
    \E p \in Procs :
        /\ Failed(p)
        /\ outcome[p].detail.error = "DuplicateQuestion"
        /\ i[p] >= 13

\* C3: the scan goes left to right and stops at the earliest violating entry:
\* it never reads past it, and the error raised is that entry's, chosen as
\* DuplicateQuestion, else UnknownQuestion, else InvalidChoice; a list without
\* a violating entry raises none of the three.
C3_FirstViolationWins ==
    \A p \in Procs :
        LET l == answers[p] IN
        Scores(p) =>
            IF HasViolation(l)
            THEN LET k == FirstViolation(l) IN
                 /\ i[p] <= k
                 /\ ~Returned(p)
                 /\ Failed(p) =>
                       /\ i[p] = k
                       /\ outcome[p].detail.error = RuleError(l, k)
                       /\ outcome[p].detail.question = l[k].question
            ELSE outcome[p].detail.error \notin
                     {"DuplicateQuestion", "UnknownQuestion", "InvalidChoice"}

\* An InvalidChoice raised while a later entry violates a rule too.
C3_Witness ==
    \E p \in Procs :
        /\ Failed(p)
        /\ outcome[p].detail.error = "InvalidChoice"
        /\ \E j \in (i[p] + 1)..Len(answers[p]) : Violates(answers[p], j)

\* C4: a score is returned only when the ids answered are exactly 1..13; a list
\* that passes every per-entry check without covering 1..13 fails with
\* IncompleteAnswerSet; at the completeness test, having 13 ids answered is the
\* same as having answered exactly 1..13.
C4_CompleteIffAllQuestions ==
    \A p \in Procs :
        LET l == answers[p] IN
        /\ Returned(p) => Ids(l) = 1..13
        /\ (Scores(p) /\ pc[p] = "done" /\ outcome[p].status # 422
               /\ ~HasViolation(l) /\ Ids(l) # 1..13) =>
                  outcome[p].detail.error = "IncompleteAnswerSet"
        /\ (pc[p] = "scan" /\ i[p] = Len(l)) =>
              (IsComplete(answered_questions[p]) <=> answered_questions[p] = 1..13)

\* Twelve valid answers rejected as incomplete.
C4_Witness ==
    \E p \in Procs :
        /\ Failed(p)
        /\ outcome[p].detail.error = "IncompleteAnswerSet"
        /\ Cardinality(answered_questions[p]) = 12

\* The 19 tier values 1.0, 1.5, ..., 10.0, in hundredths.
Tiers == {50 * h : h \in 2..20}

\* C5: every raw score calculate_gl_score returns is rescaled to one of the 19
\* tiers, get_allocations finds that tier in BIBIT_ALLOCATIONS, and no
\* invocation ends with the AllocationNotConfigured (500) error.
C5_TierAlwaysConfigured ==
    \A p \in Procs :
        /\ outcome[p].status # 500
        /\ outcome[p].detail.error # "AllocationNotConfigured"
        /\ (Returned(p) /\ Scaled(p)) =>
              /\ bibit_score[p] \in Tiers
              /\ bibit_score[p] \in DOMAIN BIBIT_ALLOCATIONS
        /\ (Returned(p) /\ pc[p] = "respond") =>
              allocation_data[p] = BIBIT_ALLOCATIONS[bibit_score[p]]

\* The highest raw score the scoring key yields, looked up successfully.
C5_Witness ==
    \E p \in Procs :
        /\ entry[p] = "assess_risk"
        /\ pc[p] = "respond"
        /\ gl_score[p] = 48
        /\ bibit_score[p] = 1000

\* C6: given the 13 answers that each select the highest-scoring choice of
\* their question, assess_risk returns raw score 47, tier 10.0, the aggressive
\* profile ("Agresif") and the allocation 10 / 20 / 70.
C6_MaxAnswers ==
    \A p \in Procs :
        (entry[p] = "assess_risk" /\ answers[p] = BaseHi /\ pc[p] = "done") =>
            /\ outcome[p].status = 200
            /\ outcome[p].body.gl_score = 47
            /\ outcome[p].body.risk_profile_score = 1000
            /\ outcome[p].body.profile = "Agresif"
            /\ outcome[p].body.allocations =
                   [money_market |-> 10, obligation |-> 20, stocks |-> 70]

Abs(x) == IF x < 0 THEN -x ELSE x

\* C7: scale_to_bibit_score returns exactly 1.0 for s <= 0, exactly 10.0 for
\* s >= 47, and otherwise the multiple of 0.5 nearest to 1 + 9*s/47, that is h/2
\* for the integer h nearest to (94 + 18*s)/47; the result lies in [1.0, 10.0].
C7_ScaleNearestHalfStep ==
    \A p \in Procs :
        Scaled(p) =>
            LET s == gl_score[p]
                r == bibit_score[p]
            IN  /\ r >= 100 /\ r <= 1000
                /\ s <= 0 => r = 100
                /\ s >= 47 => r = 1000
                /\ (0 < s /\ s < 47) =>
                      \E h \in 2..20 :
                          /\ r = 50 * h
                          /\ 2 * Abs(47 * h - (94 + 18 * s)) <= 47

\* Raw score 46 rescaled up to 10.0 by the rounding, not by the clamp.
C7_Witness ==
    \E p \in Procs :
        /\ entry[p] = "scale_to_bibit_score"
        /\ pc[p] = "done"
        /\ gl_score[p] = 46
        /\ bibit_score[p] = 1000

\* C8: BIBIT_ALLOCATIONS always has an entry for each of the 19 tiers, and in
\* every entry money_market, obligation and stocks are non-negative integers
\* that sum to 100.
C8_AllocationTableSound ==
    /\ \A t \in Tiers : t \in DOMAIN BIBIT_ALLOCATIONS
    /\ \A t \in DOMAIN BIBIT_ALLOCATIONS :
          LET row == BIBIT_ALLOCATIONS[t] IN
          /\ row.money_market \in Nat
          /\ row.obligation \in Nat
          /\ row.stocks \in Nat
          /\ row.money_market + row.obligation + row.stocks = 100

\* An invocation has read a row of the table and answered from it.
C8_Witness ==
    \E p \in Procs :
        /\ pc[p] = "done"
        /\ outcome[p].status = 200
        /\ outcome[p].body.allocations.stocks = 11
        /\ BIBIT_ALLOCATIONS[350].stocks = 11

\* Round to the nearest integer, a tie away from zero (num >= 0, den > 0).
RoundHalfAway(num, den) == (2 * num + den) \div (2 * den)

\* C10: for 0 < s < 47 the value handed to round(), (94 + 18*s)/47, is never
\* halfway between two integers, so the tier is the same under
\* round-half-to-even and round-half-away-from-zero; and the tier does not
\* decrease from s - 1 to s.
C10_NoTiesAndMonotone ==
    \A p \in Procs :
        (entry[p] = "scale_to_bibit_score" /\ pc[p] = "done") =>
            LET s == gl_score[p]
                u == UnroundedSteps(s)
            IN  /\ (0 < s /\ s < 47) =>
                      /\ u.num * 47 = (94 + 18 * s) * u.den
                      /\ 2 * (u.num % u.den) # u.den
                      /\ bibit_score[p] = 50 * RoundHalfAway(94 + 18 * s, 47)
                /\ bibit_score[p] >= scale_to_bibit_score(s - 1)

\* A raw score at which the tier steps up.
C10_Witness ==
    \E p \in Procs :
        /\ entry[p] = "scale_to_bibit_score"
        /\ pc[p] = "done"
        /\ gl_score[p] \in 1..46
        /\ bibit_score[p] > scale_to_bibit_score(gl_score[p] - 1)

\* The points a list without a violating entry adds up to.
RECURSIVE SumPoints(_)
SumPoints(l) ==
    IF l = << >> THEN 0
    ELSE ScoringKeyTable[Head(l).question][Head(l).answer] + SumPoints(Tail(l))

\* The tier nearest to 1 + 9*s/47, clamped to [1.0, 10.0].
NearestTier(s) ==
    IF s <= 0 THEN 100
    ELSE IF s >= 47 THEN 1000
    ELSE CHOOSE t \in Tiers : 2 * Abs(47 * t - 50 * (94 + 18 * s)) <= 47 * 50

\* What assess_risk answers to a request body when it runs alone.
AloneOutcome(l) ==
    IF ~PayloadValid(l)
    THEN HTTPException(422, "RequestValidationError", 0, "", {})
    ELSE IF HasViolation(l)
    THEN LET k == FirstViolation(l) IN
         HTTPException(400, RuleError(l, k), l[k].question, l[k].answer,
                       IF RuleError(l, k) = "InvalidChoice"
                       THEN DOMAIN ScoringKeyTable[l[k].question] ELSE {})
    ELSE IF Ids(l) # 1..13
    THEN HTTPException(400, "IncompleteAnswerSet", 0, "", {})
    ELSE AllocationResponse(SumPoints(l), NearestTier(SumPoints(l)),
                            AllocationTable[NearestTier(SumPoints(l))])

\* The locals of invocation q.
Locals(q) ==
    << entry[q], pc[q], answers[q], i[q], score[q], answered_questions[q],
       gl_score[q], bibit_score[q], allocation_data[q], outcome[q] >>

\* A step leaves the tables as they are and changes the locals of one
\* invocation at most.
IsolatedStep ==
    /\ GL_SCORING_KEY' = GL_SCORING_KEY
    /\ BIBIT_ALLOCATIONS' = BIBIT_ALLOCATIONS
    /\ \A q, r \in Procs : (q # r /\ Locals(q)' # Locals(q)) => Locals(r)' = Locals(r)

\* C9: under every interleaving of concurrent assess_risk invocations the two
\* tables stay as loaded, no step of one invocation changes the state of
\* another, and every invocation ends with the outcome it has when run alone
\* on its own request body.
C9_InvocationsIndependent ==
    /\ [](/\ GL_SCORING_KEY = ScoringKeyTable
          /\ BIBIT_ALLOCATIONS = AllocationTable
          /\ \A p \in Procs : pc[p] = "done" => outcome[p] = AloneOutcome(answers[p]))
    /\ [][IsolatedStep]_vars

\* One invocation has answered 200 while another is in the middle of its scan.
C9_Witness ==
    \E p, q \in Procs :
        /\ p # q
        /\ pc[p] = "done" /\ outcome[p].status = 200
        /\ pc[q] = "scan" /\ i[q] > 0 /\ i[q] < Len(answers[q])

Spec == Init /\ [][Next]_vars

SpecConc == InitConc /\ [][Next]_vars

====
